---- MODULE Spec2Model ----
(***************************************************************************)
(* The Librarian: the retrieval-augmented question answering pipeline.     *)
(*   src/src/retrieval/vector_store.py  ChromaVectorStore, BorgesVectorStore*)
(*   src/src/retrieval/chains.py        BorgesRAGChain                      *)
(*   src/app.py                         start-up and the UI callbacks       *)
(* Text is a sequence of fragments (characters or literal pieces), so that  *)
(* concatenation, slicing, stripping and containment are computed.          *)
(* Python's None is the empty set and a present value x is {x}.             *)
(* Floats are fixed-point integers: DistUnit stands for 1.0.                *)
(***************************************************************************)
EXTENDS Integers, Sequences, FiniteSets, TLC

\* ------------------------------------------------------------- bounds
NumDocs == 3
MaxMsgLen == 2
MaxCount == 2
DistUnit == 10
\* how far around the preview limit the passage lengths range
MaxOver == 3

\* ------------------------------------------------- program constants
TopK == 5
PreviewLen == 200
SamplePreviewLen == 100
TestSearchK == 3

\* ------------------------------------------------------ Python values
None == {}
Some(x) == {x}
Val(o) == CHOOSE x \in o : TRUE

Min(a, b) == IF a <= b THEN a ELSE b

\* s[:n] of Python, for n >= 0
Take(s, n) == SubSeq(s, 1, Min(n, Len(s)))

\* needle in haystack, for text
Contains(hay, needle) ==
  \E i \in 0..(Len(hay) - Len(needle)) :
    SubSeq(hay, i + 1, i + Len(needle)) = needle

RECURSIVE Join(_, _)
\* sep.join(parts)
Join(parts, sep) ==
  IF parts = <<>> THEN <<>>
  ELSE IF Len(parts) = 1 THEN parts[1]
  ELSE parts[1] \o sep \o Join(Tail(parts), sep)

\* ----------------------------------------------------------- settings
CollectionName == "borges_stories"
PersistDirectory == "./chroma_db"

\* ------------------------------------------------- the user's messages
Chars == {" ", "q"}
Messages == UNION {[1..n -> Chars] : n \in 0..MaxMsgLen}

RECURSIVE LStrip(_)
LStrip(s) == IF s # <<>> /\ Head(s) = " " THEN LStrip(Tail(s)) ELSE s

RECURSIVE RStrip(_)
RStrip(s) ==
  IF s # <<>> /\ s[Len(s)] = " " THEN RStrip(SubSeq(s, 1, Len(s) - 1)) ELSE s

\* (faulty variant: nothing is stripped)
Strip_nothing(s) == s

\* str.strip()
Strip(s) == RStrip(LStrip(s))

\* ------------------------------------- the collection and its responses
\* The stored documents: texts of different lengths, with each shape of
\* metadata the collection can hold (both keys, source only, None, other key).
Content(i) == <<"d", ToString(i)>> \o [j \in 1..i |-> "x"]

Meta(i) ==
  CASE i % 4 = 1 -> Some({<<"story_title", "Emma Zunz">>, <<"source", "aleph.pdf">>})
    [] i % 4 = 2 -> Some({<<"source", "ficciones.pdf">>})
    [] i % 4 = 3 -> None
    [] OTHER -> Some({<<"page", "7">>})

\* distances the collection may report: None, or a value up to 2.0
DistOpts == {None, Some(1), Some(3), Some(5), Some(DistUnit + 5)}

\* A nearest-neighbour query reports its matches nearest first; an entry
\* whose distance is missing can stand anywhere.
NearestFirst(ds) ==
  \A i, j \in DOMAIN ds :
    (i < j /\ ds[i] # None /\ ds[j] # None) => Val(ds[i]) <= Val(ds[j])

Responses ==
  UNION {
    {[documents |-> [i \in 1..n |-> Content(i)],
      metadatas |-> [i \in 1..n |-> Meta(i)],
      distances |-> ds] : ds \in {d \in [1..n -> DistOpts] : NearestFirst(d)}}
    : n \in 0..NumDocs}

EmptyResponse == [documents |-> <<>>, metadatas |-> <<>>, distances |-> <<>>]

\* what each external call raises when it fails
ExcMsg(at) == <<"[", at, " failed]">>

\* --------------------------------------- ChromaVectorStore (vector_store.py)
\* _get_embedding_model: emb is 0 for None, else the instance held.
\* ctorOk: whether SentenceTransformer(...) succeeds if it is called.
get_embedding_model(emb, ctorOk) ==
  IF emb = 0
  THEN IF ctorOk
       THEN [raised |-> FALSE, emb |-> 1, built |-> 1, calls |-> <<"emb_ctor">>]
       ELSE [raised |-> TRUE, emb |-> 0, built |-> 0, calls |-> <<"emb_ctor">>]
  ELSE [raised |-> FALSE, emb |-> emb, built |-> 0, calls |-> <<>>]

\* (faulty variant: the distance itself is taken for the score)
similarity_score_raw(distance) ==
  IF distance # None THEN Val(distance) ELSE 0

\* similarity_score = 1.0 - distance if distance is not None else 0.0
similarity_score(distance) ==
  IF distance # None THEN DistUnit - Val(distance) ELSE 0

\* metadata or {}
MetadataOrEmpty(metadata) == IF metadata = None THEN {} ELSE Val(metadata)

\* the loop over zip(documents, metadatas, distances)
formatted_results(results) ==
  LET n == Min(Len(results.documents),
               Min(Len(results.metadatas), Len(results.distances)))
  IN [i \in 1..n |->
        [content |-> results.documents[i],
         metadata |-> MetadataOrEmpty(results.metadatas[i]),
         score |-> similarity_score(results.distances[i]),
         distance |-> results.distances[i]]]

\* k = k or settings.top_k
n_results_of(k) == IF k = None \/ Val(k) = 0 THEN TopK ELSE Val(k)

SearchError(cause) ==
  <<"Failed to search collection '", CollectionName, "': ">> \o cause

\* (faulty variant: a failed collection query is issued a second time)
search_retrying(emb, k, env) ==
  LET g == get_embedding_model(emb, env.at # "emb_ctor")
      n == n_results_of(k)
      fail(calls, e) ==
        [raised |-> TRUE, msg |-> SearchError(ExcMsg(e)), docs |-> <<>>,
         emb |-> g.emb, built |-> g.built, calls |-> calls \o <<"raise">>,
         n_results |-> n, resp |-> EmptyResponse]
  IN IF g.raised THEN fail(g.calls, "emb_ctor")
     ELSE IF env.at = "encode" THEN fail(g.calls \o <<"encode">>, "encode")
     ELSE IF env.at = "coll_query"
     THEN fail(g.calls \o <<"encode", "coll_query", "coll_query">>, "coll_query")
     ELSE [raised |-> FALSE, msg |-> <<>>, docs |-> formatted_results(env.resp),
           emb |-> g.emb, built |-> g.built,
           calls |-> g.calls \o <<"encode", "coll_query">>,
           n_results |-> n, resp |-> env.resp]

\* search(query, k): env.at names the external call that raises ("none" when
\* all succeed) and env.resp is what collection.query returns.
search(emb, k, env) ==
  LET g == get_embedding_model(emb, env.at # "emb_ctor")
      n == n_results_of(k)
      fail(calls, e) ==
        [raised |-> TRUE, msg |-> SearchError(ExcMsg(e)), docs |-> <<>>,
         emb |-> g.emb, built |-> g.built, calls |-> calls \o <<"raise">>,
         n_results |-> n, resp |-> EmptyResponse]
  IN IF g.raised THEN fail(g.calls, "emb_ctor")
     ELSE IF env.at = "encode" THEN fail(g.calls \o <<"encode">>, "encode")
     ELSE IF env.at = "coll_query"
     THEN fail(g.calls \o <<"encode", "coll_query">>, "coll_query")
     ELSE [raised |-> FALSE, msg |-> <<>>, docs |-> formatted_results(env.resp),
           emb |-> g.emb, built |-> g.built,
           calls |-> g.calls \o <<"encode", "coll_query">>,
           n_results |-> n, resp |-> env.resp]

HasKey(metadata, key) == \E kv \in metadata : kv[1] = key
Lookup(metadata, key) == (CHOOSE kv \in metadata : kv[1] = key)[2]

\* list(metadata.keys()), in the order the collection stores the keys
KeysOf(metadata) ==
  LET present(key) == HasKey(metadata, key)
  IN SelectSeq(<<"story_title", "source", "page">>, present)

\* get_collection_info(): env.count is what collection.count() returns (None
\* when it raises); env.at and env.resp are the sample retrieval's outcome.
sample_data_of(sample_results) ==
  IF sample_results.documents # <<>>
  THEN LET sample_doc == sample_results.documents[1]
           sample_metadata ==
             IF sample_results.metadatas # <<>>
             THEN MetadataOrEmpty(sample_results.metadatas[1]) ELSE {}
       IN Some([content_preview |->
                  IF Len(sample_doc) > SamplePreviewLen
                  THEN Take(sample_doc, SamplePreviewLen) \o <<".", ".", ".">>
                  ELSE sample_doc,
                metadata_keys |-> KeysOf(sample_metadata)])
  ELSE None

has_documents_always(count) == count >= 0

\* 'if count > 0': only a collection with documents is sampled
has_documents(count) == count > 0

\* the record returned when count() succeeded
info_connected(count, sample_data) ==
  [name |-> CollectionName, count |-> count, status |-> "connected",
   sample_data |-> sample_data]

\* the record returned by the outer handler
info_error(e) == [error |-> e, status |-> "error", name |-> CollectionName]

sample_failed_outer(count, e) == info_error(e)

\* the inner handler logs a warning and falls through to the return
sample_failed(count, e) == info_connected(count, None)

get_collection_info(emb, env) ==
  IF env.count = None
  THEN [info |-> info_error(ExcMsg("count")),
        emb |-> emb, built |-> 0, calls |-> <<"count", "raise">>]
  ELSE
    LET count == Val(env.count)
        g == get_embedding_model(emb, env.at # "emb_ctor")
        connected(sample_data) == info_connected(count, sample_data)
        failed == sample_failed(count, ExcMsg(env.at))
    IN IF has_documents(count)
       THEN IF g.raised
            THEN [info |-> failed, emb |-> g.emb, built |-> g.built,
                  calls |-> <<"count">> \o g.calls \o <<"raise">>]
            ELSE IF env.at = "encode"
            THEN [info |-> failed, emb |-> g.emb, built |-> g.built,
                  calls |-> <<"count">> \o g.calls \o <<"encode", "raise">>]
            ELSE IF env.at = "coll_query"
            THEN [info |-> failed, emb |-> g.emb, built |-> g.built,
                  calls |-> <<"count">> \o g.calls
                            \o <<"encode", "coll_query", "raise">>]
            ELSE [info |-> connected(sample_data_of(env.resp)),
                  emb |-> g.emb, built |-> g.built,
                  calls |-> <<"count">> \o g.calls \o <<"encode", "coll_query">>]
       ELSE [info |-> connected(None), emb |-> emb, built |-> 0,
             calls |-> <<"count">>]

ConnectionErrorMsg(cause) ==
  <<"Could not connect to ChromaDB persistent storage at ", PersistDirectory,
    " or access collection '", CollectionName, "'. Error: ">> \o cause \o <<".">>

\* BorgesVectorStore.create(): env.connect names the client call that raises
\* ("ok" when the collection is opened); the rest of env is passed to
\* get_collection_info. info['count'] raises KeyError on an error record.
create(env) ==
  IF env.connect = "client"
  THEN [raised |-> TRUE, msg |-> ConnectionErrorMsg(ExcMsg("client")),
        emb |-> 0, built |-> 0, calls |-> <<"client", "raise">>]
  ELSE IF env.connect = "list_collections"
  THEN [raised |-> TRUE, msg |-> ConnectionErrorMsg(ExcMsg("list_collections")),
        emb |-> 0, built |-> 0,
        calls |-> <<"client", "list_collections", "raise">>]
  ELSE IF env.connect = "get_collection"
  THEN [raised |-> TRUE, msg |-> ConnectionErrorMsg(ExcMsg("get_collection")),
        emb |-> 0, built |-> 0,
        calls |-> <<"client", "list_collections", "get_collection", "raise">>]
  ELSE LET i == get_collection_info(0, env)
           opened == <<"client", "list_collections", "get_collection">>
       IN IF "count" \in DOMAIN i.info
          THEN [raised |-> FALSE, msg |-> <<>>, emb |-> i.emb,
                built |-> i.built, calls |-> opened \o i.calls]
          ELSE [raised |-> TRUE, msg |-> ConnectionErrorMsg(<<"'count'">>),
                emb |-> i.emb, built |-> i.built, calls |-> opened \o i.calls]

\* ------------------------------------------------ BorgesRAGChain (chains.py)
\* f"{score:.3f}"
Fmt3(score) ==
  LET a == IF score < 0 THEN 0 - score ELSE score
      th == (a * 1000) \div DistUnit
  IN (IF score < 0 THEN <<"-">> ELSE <<>>)
       \o <<ToString(th \div 1000), ".", ToString((th \div 100) % 10),
            ToString((th \div 10) % 10), ToString(th % 10)>>

\* _get_llm: llm is 0 for None, else the instance held.
\* ctorOk: whether ChatOpenAI(...) succeeds if it is called.
get_llm(llm, apiKey, ctorOk) ==
  IF llm = 0
  THEN IF ~apiKey
       THEN [raised |-> TRUE, msg |-> <<"OpenAI API key not provided">>,
             llm |-> 0, built |-> 0, calls |-> <<>>]
       ELSE IF ctorOk
       THEN [raised |-> FALSE, msg |-> <<>>, llm |-> 1, built |-> 1,
             calls |-> <<"llm_ctor">>]
       ELSE [raised |-> TRUE, msg |-> ExcMsg("llm_ctor"), llm |-> 0,
             built |-> 0, calls |-> <<"llm_ctor">>]
  ELSE [raised |-> FALSE, msg |-> <<>>, llm |-> llm, built |-> 0,
        calls |-> <<>>]

NoPassagesContext == <<"No relevant passages found in the collection.">>

\* the title annotation: story_title if present, else source, else nothing
story_info(doc) ==
  IF HasKey(doc.metadata, "story_title")
  THEN <<" (from '", Lookup(doc.metadata, "story_title"), "')">>
  ELSE IF HasKey(doc.metadata, "source")
  THEN <<" (from ", Lookup(doc.metadata, "source"), ")">>
  ELSE <<>>

\* (faulty variant: the blocks are numbered from 0)
context_part_from_zero(i, doc) ==
  <<"Passage ", ToString(i - 1)>> \o story_info(doc) \o <<" [Relevance: ">>
    \o Fmt3(doc.score) \o <<"]:\n">> \o doc.content

\* one "Passage i ..." block of _format_context
context_part(i, doc) ==
  <<"Passage ", ToString(i)>> \o story_info(doc) \o <<" [Relevance: ">>
    \o Fmt3(doc.score) \o <<"]:\n">> \o doc.content

format_context(documents) ==
  IF documents = <<>> THEN NoPassagesContext
  ELSE Join([i \in 1..Len(documents) |-> context_part(i, documents[i])],
            <<"\n\n">>)

\* BORGES_PROMPT.format(context=..., question=...)
format_prompt(context, question) ==
  <<"You are The Librarian ... Context from Borges' stories:\n">> \o context
    \o <<"\n\nQuestion: ">> \o question
    \o <<"\n\nYour response as The Librarian:">>

NoResultsAnswer ==
  <<"I couldn't find relevant passages in the Borges collection to answer your question. Could you try rephrasing or asking about a different aspect of his work?">>

NoResultsResult ==
  [answer |-> NoResultsAnswer, sources |-> <<>>, context_used |-> <<>>,
   num_sources |-> 0]

\* (faulty variant: the apology leaves the exception's message out)
ErrorResult_generic(e) ==
  [answer |-> <<"I encountered an error while processing your question. Please try again.">>,
   sources |-> <<>>, context_used |-> <<>>, error |-> e]

\* the dictionary returned by the except branch of query
ErrorResult(e) ==
  [answer |-> <<"I encountered an error while processing your question: ">>
                \o e \o <<". Please try again.">>,
   sources |-> <<>>, context_used |-> <<>>, error |-> e]

\* (faulty variant: the preview is cut to fit the limit, as utils.truncate_text)
content_preview_fitted(content) ==
  IF Len(content) > PreviewLen
  THEN Take(content, PreviewLen - 3) \o <<".", ".", ".">>
  ELSE content

\* doc["content"][:200] + "..." if len(doc["content"]) > 200 else doc["content"]
content_preview(content) ==
  IF Len(content) > PreviewLen
  THEN Take(content, PreviewLen) \o <<".", ".", ".">>
  ELSE content

source_info(doc) ==
  [content_preview |-> content_preview(doc.content), metadata |-> doc.metadata,
   score |-> doc.score, distance |-> doc.distance]

\* (faulty variant: the per-source records are not attached)
SuccessResult_bare(answer, documents, context) ==
  [answer |-> answer, sources |-> <<>>, context_used |-> context,
   num_sources |-> Len(documents)]

\* the dictionary returned when the LLM has answered
SuccessResult(answer, documents, context) ==
  [answer |-> answer,
   sources |-> [i \in 1..Len(documents) |-> source_info(documents[i])],
   context_used |-> context, num_sources |-> Len(documents)]

\* response.content if hasattr(response, 'content') else str(response)
answer_of(llmOut) ==
  IF llmOut = "content" THEN <<"[the model's answer]">>
  ELSE <<"str(", "[the response object]", ")">>

\* (faulty variant: the empty retrieval is not short-circuited)
no_documents_ignored(documents) == FALSE

\* if not documents:
no_documents(documents) == documents = <<>>

\* query(question): env.at and env.resp are the retrieval's outcome, env.llm
\* the generation's: "content" or "plain" (a response with or without a
\* content attribute), "ctor_raise" or "invoke_raise".
query(question, emb, llm, apiKey, env) ==
  LET s == search(emb, None, env)
      found == <<[raised |-> s.raised, docs |-> s.docs, resp |-> s.resp,
                  n_results |-> s.n_results]>>
      l == get_llm(llm, apiKey, env.llm # "ctor_raise")
      context == format_context(s.docs)
  IN IF s.raised
     THEN [res |-> ErrorResult(s.msg), emb |-> s.emb, embBuilt |-> s.built,
           llm |-> llm, llmBuilt |-> 0, calls |-> <<"search">> \o s.calls,
           sres |-> found, prompt |-> None]
     ELSE IF no_documents(s.docs)
     THEN [res |-> NoResultsResult, emb |-> s.emb, embBuilt |-> s.built,
           llm |-> llm, llmBuilt |-> 0, calls |-> <<"search">> \o s.calls,
           sres |-> found, prompt |-> None]
     ELSE IF l.raised
     THEN [res |-> ErrorResult(l.msg), emb |-> s.emb, embBuilt |-> s.built,
           llm |-> l.llm, llmBuilt |-> 0,
           calls |-> <<"search">> \o s.calls \o l.calls \o <<"raise">>,
           sres |-> found, prompt |-> None]
     ELSE IF env.llm = "invoke_raise"
     THEN [res |-> ErrorResult(ExcMsg("llm_invoke")), emb |-> s.emb,
           embBuilt |-> s.built, llm |-> l.llm, llmBuilt |-> l.built,
           calls |-> <<"search">> \o s.calls \o l.calls
                     \o <<"llm_invoke", "raise">>,
           sres |-> found, prompt |-> Some(format_prompt(context, question))]
     ELSE [res |-> SuccessResult(answer_of(env.llm), s.docs, context),
           emb |-> s.emb, embBuilt |-> s.built, llm |-> l.llm,
           llmBuilt |-> l.built,
           calls |-> <<"search">> \o s.calls \o l.calls \o <<"llm_invoke">>,
           sres |-> found, prompt |-> Some(format_prompt(context, question))]

\* ------------------------------------------------------------------ app.py
NotInitializedMsg ==
  <<"System not properly initialized. Please check ChromaDB connection.">>
PleaseAskMsg == <<"Please ask me something about Jorge Luis Borges' works.">>
VectorStoreNotInitialized == <<"Vector store not initialized">>

\* (faulty variant: the blank-message test comes before the rag_chain test)
chat_with_librarian_reordered(message, has_chain, emb, llm, apiKey, env) ==
  IF Strip(message) = <<>>
  THEN [ret |-> PleaseAskMsg, emb |-> emb, embBuilt |-> 0, llm |-> llm,
        llmBuilt |-> 0, calls |-> <<>>, sres |-> <<>>, qres |-> <<>>]
  ELSE IF ~has_chain
  THEN [ret |-> NotInitializedMsg, emb |-> emb, embBuilt |-> 0, llm |-> llm,
        llmBuilt |-> 0, calls |-> <<>>, sres |-> <<>>, qres |-> <<>>]
  ELSE LET q == query(message, emb, llm, apiKey, env)
       IN [ret |-> IF "error" \in DOMAIN q.res
                   THEN <<"I apologize, but I encountered an issue: ">>
                          \o q.res.error
                   ELSE q.res.answer,
           emb |-> q.emb, embBuilt |-> q.embBuilt, llm |-> q.llm,
           llmBuilt |-> q.llmBuilt, calls |-> <<"query">> \o q.calls,
           sres |-> q.sres, qres |-> <<q.res>>]

\* chat_with_librarian(message, history): has_chain is bool(rag_chain).
chat_with_librarian(message, has_chain, emb, llm, apiKey, env) ==
  IF ~has_chain
  THEN [ret |-> NotInitializedMsg, emb |-> emb, embBuilt |-> 0, llm |-> llm,
        llmBuilt |-> 0, calls |-> <<>>, sres |-> <<>>, qres |-> <<>>]
  ELSE IF Strip(message) = <<>>
  THEN [ret |-> PleaseAskMsg, emb |-> emb, embBuilt |-> 0, llm |-> llm,
        llmBuilt |-> 0, calls |-> <<>>, sres |-> <<>>, qres |-> <<>>]
  ELSE LET q == query(message, emb, llm, apiKey, env)
       IN [ret |-> IF "error" \in DOMAIN q.res
                   THEN <<"I apologize, but I encountered an issue: ">>
                          \o q.res.error
                   ELSE q.res.answer,
           emb |-> q.emb, embBuilt |-> q.embBuilt, llm |-> q.llm,
           llmBuilt |-> q.llmBuilt, calls |-> <<"query">> \o q.calls,
           sres |-> q.sres, qres |-> <<q.res>>]

\* get_collection_status(): has_store is bool(vector_store).
get_collection_status(has_store, emb, env) ==
  IF ~has_store
  THEN [ret |-> [msg |-> VectorStoreNotInitialized, type |-> "error"],
        emb |-> emb, embBuilt |-> 0, calls |-> <<>>, ires |-> <<>>]
  ELSE LET i == get_collection_info(emb, env)
           info == i.info
           keys == IF info.sample_data # None
                   THEN Val(info.sample_data).metadata_keys ELSE <<>>
       IN [ret |->
             IF "error" \in DOMAIN info
             THEN [msg |-> <<"Collection Error: ">> \o info.error,
                   type |-> "error"]
             ELSE [msg |-> <<"Connected to '", info.name, "' collection\n",
                             "Documents: ", ToString(info.count), "\n",
                             "Storage: ", PersistDirectory, "\n",
                             "Status: ", info.status>>
                           \o (IF keys # <<>>
                               THEN <<"\nMetadata: ">>
                                      \o Join([j \in 1..Len(keys) |-> <<keys[j]>>],
                                              <<", ">>)
                               ELSE <<>>),
                   type |-> "success"],
           emb |-> i.emb, embBuilt |-> i.built,
           calls |-> <<"get_collection_info">> \o i.calls, ires |-> <<info>>]

\* test_search_functionality(): vector_store.search("Emma Zunz", k=3)
test_search_functionality(has_store, emb, env) ==
  IF ~has_store
  THEN [ret |-> [msg |-> VectorStoreNotInitialized, type |-> "error"],
        emb |-> emb, embBuilt |-> 0, calls |-> <<>>, sres |-> <<>>]
  ELSE LET s == search(emb, Some(TestSearchK), env)
       IN [ret |->
             IF s.raised
             THEN [msg |-> <<"Search Test Failed: ">> \o s.msg, type |-> "error"]
             ELSE IF s.docs # <<>>
             THEN [msg |-> <<"Search Test Successful\n", "Query: 'Emma Zunz'\n",
                             "Results: ", ToString(Len(s.docs)),
                             " documents found\n", "Top score: ">>
                           \o Fmt3(s.docs[1].score) \o <<"\nPreview: ">>
                           \o Take(s.docs[1].content, SamplePreviewLen)
                           \o <<".", ".", ".">>,
                   type |-> "success"]
             ELSE [msg |-> <<"Search returned no results for 'Emma Zunz'">>,
                   type |-> "warning"],
           emb |-> s.emb, embBuilt |-> s.built,
           calls |-> <<"search">> \o s.calls,
           sres |-> <<[raised |-> s.raised, docs |-> s.docs, resp |-> s.resp,
                       n_results |-> s.n_results]>>]

\* ============================================================ the process
VARIABLES
  phase,         \* "boot" until app.py's module body has run, then "ready" or "disabled"
  vector_store,  \* app.vector_store: "None" or "ChromaVectorStore"
  rag_chain,     \* app.rag_chain: "None" or "BorgesRAGChain"
  embModel,      \* ChromaVectorStore._embedding_model: 0 for None, else the instance
  llm,           \* BorgesRAGChain._llm: 0 for None, else the instance
  embBuilt,      \* how many SentenceTransformer instances were constructed
  llmBuilt,      \* how many ChatOpenAI instances were constructed
  apiKey,        \* bool(settings.openai_api_key)
  pc,            \* "idle", or "returned" while a call's result is being handed back
  op,            \* the call that returned: its name and arguments
  ret,           \* what it returned
  calls,         \* the calls it made, in order ("raise" marks an exception)
  sres,          \* the outcome of the search it ran, if any
  qres,          \* the result of the query it ran, if any
  ires,          \* the record of the get_collection_info it ran, if any
  tpc,           \* per request thread: where it stands
  top,           \* per request thread: the operation it runs
  temb,          \* per request thread: the embedding model instance it got
  tllm           \* per request thread: the LLM client instance it got

shared == <<phase, vector_store, rag_chain, embModel, llm, embBuilt, llmBuilt, apiKey>>
frame == <<pc, op, ret, calls, sres, qres, ires>>
threads == <<tpc, top, temb, tllm>>
vars == <<shared, frame, threads>>

Threads == {"t1", "t2"}

NoOp == [name |-> "none", message |-> <<>>, k |-> None]


\* ---------------------------------------------- what the collaborators do
RaisePoints == {"emb_ctor", "encode", "coll_query"}
LlmOuts == {"content", "plain", "ctor_raise", "invoke_raise"}

ResponsesUpTo(n) == {r \in Responses : Len(r.documents) <= n}

SearchEnvs(n) ==
  {[at |-> a, resp |-> EmptyResponse] : a \in RaisePoints}
    \cup {[at |-> "none", resp |-> r] : r \in ResponsesUpTo(n)}

QueryEnvs ==
  {[at |-> a, resp |-> EmptyResponse, llm |-> "content"] : a \in RaisePoints}
    \cup {[at |-> "none", resp |-> EmptyResponse, llm |-> "content"]}
    \cup {[at |-> "none", resp |-> r, llm |-> l] :
            r \in Responses \ {EmptyResponse}, l \in LlmOuts}

InfoEnvs ==
  {[count |-> c, at |-> "none", resp |-> EmptyResponse] : c \in {None, Some(0)}}
    \cup {[count |-> Some(c), at |-> a, resp |-> EmptyResponse] :
            c \in 1..MaxCount, a \in RaisePoints}
    \cup {[count |-> Some(c), at |-> "none", resp |-> r] :
            c \in 1..MaxCount, r \in ResponsesUpTo(1)}

StartupEnvs ==
  {[connect |-> c, count |-> None, at |-> "none", resp |-> EmptyResponse] :
     c \in {"client", "list_collections", "get_collection"}}
    \cup {[connect |-> "ok", count |-> e.count, at |-> e.at, resp |-> e.resp] :
            e \in InfoEnvs}

\* a constructor can only fail where it is called
Possible(env) ==
  /\ env.at = "emb_ctor" => embModel = 0
  /\ ("llm" \in DOMAIN env /\ env.llm = "ctor_raise") => (llm = 0 /\ apiKey)

Init ==
  /\ phase = "boot"
  /\ vector_store = "None"
  /\ rag_chain = "None"
  /\ embModel = 0
  /\ llm = 0
  /\ embBuilt = 0
  /\ llmBuilt = 0
  /\ apiKey \in BOOLEAN
  /\ pc = "idle"
  /\ op = NoOp
  /\ ret = <<>>
  /\ calls = <<>>
  /\ sres = <<>>
  /\ qres = <<>>
  /\ ires = <<>>
  /\ tpc = [t \in Threads |-> "idle"]
  /\ top = [t \in Threads |-> "none"]
  /\ temb = [t \in Threads |-> 0]
  /\ tllm = [t \in Threads |-> 0]

\* app.py's module body: create the store and the chain, or leave both None
Startup ==
  /\ phase = "boot"
  /\ pc = "idle"
  /\ \E env \in StartupEnvs :
       \E c \in {create(env)} :
          /\ phase' = IF c.raised THEN "disabled" ELSE "ready"
          /\ vector_store' = IF c.raised THEN "None" ELSE "ChromaVectorStore"
          /\ rag_chain' = IF c.raised THEN "None" ELSE "BorgesRAGChain"
          /\ embModel' = IF c.raised THEN 0 ELSE c.emb
          /\ embBuilt' = c.built
          /\ calls' = <<"create">> \o c.calls
  /\ pc' = "returned"
  /\ op' = [NoOp EXCEPT !.name = "startup"]
  /\ ret' = <<>>
  /\ UNCHANGED <<llm, llmBuilt, apiKey, sres, qres, ires, threads>>

Started == phase # "boot" /\ pc = "idle"

Chat ==
  /\ Started
  /\ \E message \in Messages, env \in QueryEnvs :
       /\ Possible(env)
       /\ \E r \in {chat_with_librarian(message, rag_chain # "None", embModel,
                                        llm, apiKey, env)} :
             /\ op' = [NoOp EXCEPT !.name = "chat", !.message = message]
             /\ ret' = r.ret
             /\ embModel' = r.emb
             /\ embBuilt' = embBuilt + r.embBuilt
             /\ llm' = r.llm
             /\ llmBuilt' = llmBuilt + r.llmBuilt
             /\ calls' = r.calls
             /\ sres' = r.sres
             /\ qres' = r.qres
  /\ pc' = "returned"
  /\ UNCHANGED <<phase, vector_store, rag_chain, apiKey, ires, threads>>

\* rag_chain.query(question), for a caller other than chat_with_librarian
Query ==
  /\ Started
  /\ rag_chain # "None"
  /\ \E question \in Messages, env \in QueryEnvs :
       /\ Possible(env)
       /\ \E q \in {query(question, embModel, llm, apiKey, env)} :
             /\ op' = [NoOp EXCEPT !.name = "query", !.message = question]
             /\ ret' = q.res
             /\ embModel' = q.emb
             /\ embBuilt' = embBuilt + q.embBuilt
             /\ llm' = q.llm
             /\ llmBuilt' = llmBuilt + q.llmBuilt
             /\ calls' = <<"query">> \o q.calls
             /\ sres' = q.sres
             /\ qres' = <<q.res>>
  /\ pc' = "returned"
  /\ UNCHANGED <<phase, vector_store, rag_chain, apiKey, ires, threads>>

GetCollectionStatus ==
  /\ Started
  /\ \E env \in InfoEnvs :
       /\ Possible(env)
       /\ \E r \in {get_collection_status(vector_store # "None", embModel, env)} :
             /\ ret' = r.ret
             /\ embModel' = r.emb
             /\ embBuilt' = embBuilt + r.embBuilt
             /\ calls' = r.calls
             /\ ires' = r.ires
  /\ op' = [NoOp EXCEPT !.name = "get_collection_status"]
  /\ pc' = "returned"
  /\ UNCHANGED <<phase, vector_store, rag_chain, llm, llmBuilt, apiKey, sres,
                 qres, threads>>

TestSearch ==
  /\ Started
  /\ \E env \in SearchEnvs(TestSearchK) :
       /\ Possible(env)
       /\ \E r \in {test_search_functionality(vector_store # "None", embModel, env)} :
             /\ ret' = r.ret
             /\ embModel' = r.emb
             /\ embBuilt' = embBuilt + r.embBuilt
             /\ calls' = r.calls
             /\ sres' = r.sres
  /\ op' = [NoOp EXCEPT !.name = "test_search", !.k = Some(TestSearchK)]
  /\ pc' = "returned"
  /\ UNCHANGED <<phase, vector_store, rag_chain, llm, llmBuilt, apiKey, qres,
                 ires, threads>>

\* the values of k a caller of search passes: absent, invalid, and sizes
SearchKs == {None, Some(0 - 1), Some(0), Some(1), Some(NumDocs)}

\* vector_store.search(query, k), for a caller other than the callbacks above
Search ==
  /\ Started
  /\ vector_store # "None"
  /\ \E k \in SearchKs :
       \E env \in SearchEnvs(n_results_of(k)) :
         /\ Possible(env)
         /\ \E s \in {search(embModel, k, env)} :
              /\ op' = [NoOp EXCEPT !.name = "search", !.k = k]
              /\ ret' = IF s.raised THEN [exception |-> s.msg] ELSE s.docs
              /\ embModel' = s.emb
              /\ embBuilt' = embBuilt + s.built
              /\ calls' = <<"search">> \o s.calls
              /\ sres' = <<[raised |-> s.raised, docs |-> s.docs,
                            resp |-> s.resp, n_results |-> s.n_results]>>
  /\ pc' = "returned"
  /\ UNCHANGED <<phase, vector_store, rag_chain, llm, llmBuilt, apiKey, qres,
                 ires, threads>>

\* the caller has the result; the call's frame is gone
Deliver ==
  /\ pc = "returned"
  /\ pc' = "idle"
  /\ op' = NoOp
  /\ ret' = <<>>
  /\ calls' = <<>>
  /\ sres' = <<>>
  /\ qres' = <<>>
  /\ ires' = <<>>
  /\ UNCHANGED <<shared, threads>>

Next ==
  \/ Startup
  \/ Chat
  \/ Query
  \/ GetCollectionStatus
  \/ TestSearch
  \/ Search
  \/ Deliver

Spec == Init /\ [][Next]_vars

\* ================================================== concurrent requests
\* The UI framework runs callbacks on worker threads, so two requests can be
\* inside search, get_collection_info or query at once. Start-up has built
\* the embedding model already when the collection was not empty. A thread can be
\* switched out between any two statements; the steps below are the
\* statements of _get_embedding_model and _get_llm and the external calls.
ConcOps == {"search", "get_collection_info", "query"}

ConcInit ==
  /\ phase = "ready"
  /\ vector_store = "ChromaVectorStore"
  /\ rag_chain = "BorgesRAGChain"
  /\ embModel \in {0, 1}
  /\ embBuilt = embModel
  /\ llm = 0
  /\ llmBuilt = 0
  /\ apiKey \in BOOLEAN
  /\ pc = "idle"
  /\ op = NoOp
  /\ ret = <<>>
  /\ calls = <<>>
  /\ sres = <<>>
  /\ qres = <<>>
  /\ ires = <<>>
  /\ tpc = [t \in Threads |-> "idle"]
  /\ top = [t \in Threads |-> "none"]
  /\ temb = [t \in Threads |-> 0]
  /\ tllm = [t \in Threads |-> 0]

\* a request enters search, get_collection_info (count() > 0) or query
CBegin(t) ==
  /\ tpc[t] = "idle"
  /\ \E o \in ConcOps : top' = [top EXCEPT ![t] = o]
  /\ tpc' = [tpc EXCEPT ![t] = "emb_check"]
  /\ temb' = [temb EXCEPT ![t] = 0]
  /\ tllm' = [tllm EXCEPT ![t] = 0]
  /\ UNCHANGED <<shared, frame>>

\* if self._embedding_model is None:
CEmbCheck(t) ==
  /\ tpc[t] = "emb_check"
  /\ IF embModel = 0
     THEN /\ tpc' = [tpc EXCEPT ![t] = "emb_ctor"]
          /\ UNCHANGED temb
     ELSE /\ tpc' = [tpc EXCEPT ![t] = "retrieve"]
          /\ temb' = [temb EXCEPT ![t] = embModel]
  /\ UNCHANGED <<shared, frame, top, tllm>>

\* self._embedding_model = SentenceTransformer(...); return self._embedding_model
CEmbCtor(t) ==
  /\ tpc[t] = "emb_ctor"
  /\ \E ok \in BOOLEAN :
       IF ok
       THEN /\ embModel' = embBuilt + 1
            /\ embBuilt' = embBuilt + 1
            /\ temb' = [temb EXCEPT ![t] = embBuilt + 1]
            /\ tpc' = [tpc EXCEPT ![t] = "retrieve"]
       ELSE /\ tpc' = [tpc EXCEPT ![t] = "done"]
            /\ UNCHANGED <<embModel, embBuilt, temb>>
  /\ UNCHANGED <<phase, vector_store, rag_chain, llm, llmBuilt, apiKey, frame,
                 top, tllm>>

\* embedding_model.encode(...) and collection.query(...)
CRetrieve(t) ==
  /\ tpc[t] = "retrieve"
  /\ \E found \in BOOLEAN :
       tpc' = [tpc EXCEPT ![t] =
                 IF top[t] = "query" /\ found THEN "llm_check" ELSE "done"]
  /\ UNCHANGED <<shared, frame, top, temb, tllm>>

\* if self._llm is None: if not settings.openai_api_key: raise
CLlmCheck(t) ==
  /\ tpc[t] = "llm_check"
  /\ IF llm = 0
     THEN /\ tpc' = [tpc EXCEPT ![t] = IF apiKey THEN "llm_ctor" ELSE "done"]
          /\ UNCHANGED tllm
     ELSE /\ tpc' = [tpc EXCEPT ![t] = "invoke"]
          /\ tllm' = [tllm EXCEPT ![t] = llm]
  /\ UNCHANGED <<shared, frame, top, temb>>

\* self._llm = ChatOpenAI(...); return self._llm
CLlmCtor(t) ==
  /\ tpc[t] = "llm_ctor"
  /\ \E ok \in BOOLEAN :
       IF ok
       THEN /\ llm' = llmBuilt + 1
            /\ llmBuilt' = llmBuilt + 1
            /\ tllm' = [tllm EXCEPT ![t] = llmBuilt + 1]
            /\ tpc' = [tpc EXCEPT ![t] = "invoke"]
       ELSE /\ tpc' = [tpc EXCEPT ![t] = "done"]
            /\ UNCHANGED <<llm, llmBuilt, tllm>>
  /\ UNCHANGED <<phase, vector_store, rag_chain, embModel, embBuilt, apiKey,
                 frame, top, temb>>

\* llm.invoke(formatted_prompt)
CInvoke(t) ==
  /\ tpc[t] = "invoke"
  /\ tpc' = [tpc EXCEPT ![t] = "done"]
  /\ UNCHANGED <<shared, frame, top, temb, tllm>>

CReturn(t) ==
  /\ tpc[t] = "done"
  /\ tpc' = [tpc EXCEPT ![t] = "idle"]
  /\ top' = [top EXCEPT ![t] = "none"]
  /\ temb' = [temb EXCEPT ![t] = 0]
  /\ tllm' = [tllm EXCEPT ![t] = 0]
  /\ UNCHANGED <<shared, frame>>

ConcNext ==
  \E t \in Threads :
    \/ CBegin(t)
    \/ CEmbCheck(t)
    \/ CEmbCtor(t)
    \/ CRetrieve(t)
    \/ CLlmCheck(t)
    \/ CLlmCtor(t)
    \/ CInvoke(t)
    \/ CReturn(t)

SpecConc == ConcInit /\ [][ConcNext]_vars

\* ------------------------------------------- query and _format_context alone
\* The two text-building steps of chains.py applied to drawn inputs: the
\* retrieval outcome handed to query (passages whose lengths lie around the
\* preview limit), and the passage list handed to _format_context together
\* with a reordering of it.
Letters == <<"a", "b", "c">>

\* a passage text of n characters
LongContent(n, c) == [j \in 1..n |-> Letters[((j + c) % 3) + 1]]

PreviewLens ==
  (0..MaxOver) \cup ((PreviewLen - MaxOver)..(PreviewLen + MaxOver))

LongResponses ==
  {[documents |-> <<LongContent(n, c)>>, metadatas |-> <<Meta(m)>>,
    distances |-> <<Some(3)>>] : n \in PreviewLens, c \in 0..1, m \in 1..2}

Perms(n) == {p \in [1..n -> 1..n] : \A i, j \in 1..n : p[i] = p[j] => i = j}

Permuted(documents, p) == [i \in 1..Len(documents) |-> documents[p[i]]]

FmtInputs ==
  {[name |-> "query", message |-> <<"q">>, k |-> None, resp |-> r,
    documents |-> <<>>, perm |-> <<>>] : r \in LongResponses}
  \cup
  UNION {
    {[name |-> "format_context", message |-> <<>>, k |-> None,
      resp |-> EmptyResponse, documents |-> formatted_results(r), perm |-> p]
       : p \in Perms(Len(r.documents))}
    : r \in Responses}

FmtInit ==
  /\ phase = "ready"
  /\ vector_store = "ChromaVectorStore"
  /\ rag_chain = "BorgesRAGChain"
  /\ embModel = 0
  /\ embBuilt = 0
  /\ llm = 0
  /\ llmBuilt = 0
  /\ apiKey = TRUE
  /\ pc = "idle"
  /\ op \in FmtInputs
  /\ ret = <<>>
  /\ calls = <<>>
  /\ sres = <<>>
  /\ qres = <<>>
  /\ ires = <<>>
  /\ tpc = [t \in Threads |-> "idle"]
  /\ top = [t \in Threads |-> "none"]
  /\ temb = [t \in Threads |-> 0]
  /\ tllm = [t \in Threads |-> 0]

\* rag_chain.query(question) on a retrieval that succeeds, with a model that
\* answers
FmtQuery ==
  /\ pc = "idle"
  /\ op.name = "query"
  /\ \E q \in {query(op.message, embModel, llm, apiKey,
                     [at |-> "none", resp |-> op.resp, llm |-> "content"])} :
       /\ ret' = q.res
       /\ embModel' = q.emb
       /\ embBuilt' = embBuilt + q.embBuilt
       /\ llm' = q.llm
       /\ llmBuilt' = llmBuilt + q.llmBuilt
       /\ calls' = <<"query">> \o q.calls
       /\ sres' = q.sres
       /\ qres' = <<q.res>>
  /\ pc' = "returned"
  /\ UNCHANGED <<phase, vector_store, rag_chain, apiKey, op, ires, threads>>

\* _format_context(documents), and _format_context of the reordered list
FmtContext ==
  /\ pc = "idle"
  /\ op.name = "format_context"
  /\ ret' = [text |-> format_context(op.documents),
             permuted |-> format_context(Permuted(op.documents, op.perm))]
  /\ calls' = <<"format_context", "format_context">>
  /\ pc' = "returned"
  /\ UNCHANGED <<shared, op, sres, qres, ires, threads>>

FmtNext ==
  \/ FmtQuery
  \/ FmtContext

SpecFmt == FmtInit /\ [][FmtNext]_vars

\* ================================================================ claims
Count(seq, x) == Cardinality({i \in DOMAIN seq : seq[i] = x})
IndexOf(seq, x) == CHOOSE i \in DOMAIN seq : seq[i] = x

\* an empty or whitespace-only message
IsBlank(m) == \A i \in DOMAIN m : m[i] = " "

\* the names in the call log of the call that returned
Called == {calls[i] : i \in DOMAIN calls}

\* a query has run and returned in this state
QueryRan == pc = "returned" /\ qres # <<>>
\* a search has run and returned its passages in this state
SearchReturned == pc = "returned" /\ sres # <<>> /\ ~sres[1].raised

\* C1: for every non-empty question and every outcome of query, the result
\* carries num_sources and it equals the length of sources.
C1_SourceCountOnEveryResult ==
  (QueryRan /\ op.message # <<>>) =>
    /\ "num_sources" \in DOMAIN qres[1]
    /\ qres[1].num_sources = Len(qres[1].sources)

\* C2: query never raises to its caller: when search, the construction of the
\* LLM client or the LLM invocation raises, query returns a result whose error
\* is the exception's message, whose answer is an apology containing that
\* message, whose sources are empty and whose context_used is the empty string.
C2_FailuresBecomeErrorResults ==
  (QueryRan /\ "raise" \in Called) =>
    LET r == qres[1]
        failed == calls[Len(calls) - 1]
        message ==
          IF sres[1].raised THEN SearchError(ExcMsg(failed))
          ELSE IF failed \in {"llm_ctor", "llm_invoke"} THEN ExcMsg(failed)
          ELSE <<"OpenAI API key not provided">>
    IN /\ calls[Len(calls)] = "raise"
       /\ DOMAIN r = {"answer", "sources", "context_used", "error"}
       /\ r.error = message
       /\ Contains(r.answer, message)
       /\ r.answer # message
       /\ r.sources = <<>>
       /\ r.context_used = <<>>

C2_Witness ==
  /\ QueryRan
  /\ Len(calls) >= 2
  /\ calls[Len(calls)] = "raise"
  /\ calls[Len(calls) - 1] = "llm_invoke"

\* C3: when search returns an empty sequence, query returns the fixed
\* no-results answer with empty context, no sources, count 0 and no error, and
\* the LLM client is neither constructed nor invoked in that call.
C3_EmptyRetrievalShortCircuits ==
  (QueryRan /\ ~sres[1].raised /\ sres[1].docs = <<>>) =>
    /\ DOMAIN qres[1] = {"answer", "sources", "context_used", "num_sources"}
    /\ qres[1].answer = NoResultsAnswer
    /\ qres[1].context_used = <<>>
    /\ qres[1].sources = <<>>
    /\ qres[1].num_sources = 0
    /\ "llm_ctor" \notin Called
    /\ "llm_invoke" \notin Called

C3_Witness ==
  /\ QueryRan
  /\ op.name = "query"
  /\ ~IsBlank(op.message)
  /\ ~sres[1].raised
  /\ sres[1].docs = <<>>
  /\ llm = 0
  /\ apiKey

\* C4 as stated: in every result of query, sources is empty if and only if
\* the search retrieved no passages in that call.
C4_SourcesEmptyIffNothingRetrieved ==
  QueryRan =>
    (qres[1].sources = <<>> <=> (sres[1].raised \/ sres[1].docs = <<>>))

\* C4 as amended: sources is empty if and only if the search retrieved no
\* passages or the call ended in the error result; a result without error
\* has one source per retrieved passage, in order.
C4_SourcesEmptyIffNothingRetrievedOrError ==
  QueryRan =>
    /\ qres[1].sources = <<>>
         <=> (sres[1].raised \/ sres[1].docs = <<>> \/ "error" \in DOMAIN qres[1])
    /\ "error" \notin DOMAIN qres[1] =>
         /\ Len(qres[1].sources) = Len(sres[1].docs)
         /\ \A i \in DOMAIN sres[1].docs :
              qres[1].sources[i] = source_info(sres[1].docs[i])

C4_Witness ==
  /\ QueryRan
  /\ ~sres[1].raised
  /\ Len(sres[1].docs) = 2
  /\ "error" \in DOMAIN qres[1]
  /\ qres[1].sources = <<>>

\* C5: after a failed start-up the system stays disabled: the vector store and
\* the chain are unset, every chat_with_librarian call, blank message or not,
\* returns the not-initialized message, and no search, embedding, collection
\* query or LLM call is ever made.
DisabledMode ==
  /\ vector_store = "None"
  /\ rag_chain = "None"
  /\ embModel = 0
  /\ llm = 0
  /\ op.name = "chat" => ret = NotInitializedMsg
  /\ Called
       \cap {"query", "search", "emb_ctor", "encode", "coll_query", "llm_ctor",
             "llm_invoke"} = {}

C5_DisabledForGood ==
  /\ [](phase = "disabled" => DisabledMode)
  /\ [][phase = "disabled" => phase' = "disabled"]_vars

C5_Witness ==
  /\ phase = "disabled"
  /\ pc = "returned"
  /\ op.name = "chat"
  /\ op.message = <<" ">>
  /\ Len(calls) = 0

\* C6 as stated: for a blank question the prompting message is returned and
\* search is not called, by query as well as by chat_with_librarian.
C6_BlankQuestionNeverSearches ==
  (pc = "returned" /\ phase = "ready" /\ op.name \in {"chat", "query"}
     /\ IsBlank(op.message)) =>
    /\ Count(calls, "search") = 0
    /\ op.name = "chat" => ret = PleaseAskMsg

\* C6 as amended: for a blank message chat_with_librarian makes no call at all
\* and returns the prompting message (the not-initialized message when the
\* system is disabled); query has no such guard and runs its search once.
C6_BlankMessageGuardedByChatOnly ==
  (pc = "returned" /\ IsBlank(op.message)) =>
    /\ op.name = "chat" =>
         /\ calls = <<>>
         /\ sres = <<>>
         /\ ret = IF phase = "ready" THEN PleaseAskMsg ELSE NotInitializedMsg
    /\ op.name = "query" =>
         /\ Count(calls, "search") = 1
         /\ sres # <<>>

C6_Witness ==
  /\ pc = "returned"
  /\ phase = "ready"
  /\ op.name = "chat"
  /\ op.message = <<" ", " ">>
  /\ ret = PleaseAskMsg

\* C7: within one query nothing is retried and the steps are ordered: search
\* is called exactly once, the collection is queried at most once, the LLM is
\* invoked at most once and only after search returned passages, and nothing
\* is called after a failure.
C7_OneAttemptInOrder ==
  QueryRan =>
    /\ Count(calls, "search") = 1
    /\ Count(calls, "emb_ctor") <= 1
    /\ Count(calls, "encode") <= 1
    /\ Count(calls, "coll_query") <= 1
    /\ Count(calls, "llm_ctor") <= 1
    /\ Count(calls, "llm_invoke") <= 1
    /\ Count(calls, "llm_invoke") = 1 =>
         /\ ~sres[1].raised
         /\ sres[1].docs # <<>>
         /\ Count(calls, "coll_query") = 1
         /\ IndexOf(calls, "search") < IndexOf(calls, "coll_query")
         /\ IndexOf(calls, "coll_query") < IndexOf(calls, "llm_invoke")
    /\ Count(calls, "raise") <= 1
    /\ Count(calls, "raise") = 1 => calls[Len(calls)] = "raise"

C7_Witness ==
  /\ QueryRan
  /\ calls = <<"query", "search", "emb_ctor", "encode", "coll_query", "raise">>

\* C8: the embedding model and the LLM client are each constructed at most
\* once, also when requests run concurrently, and every call uses the one
\* instance.
C8_ConstructedAtMostOnce ==
  /\ embBuilt <= 1
  /\ llmBuilt <= 1
  /\ \A t \in Threads : temb[t] \in {0, 1} /\ tllm[t] \in {0, 1}

\* C9: for every passage returned by search, with d the distance the
\* collection reported for it, score is 1 - d when d is defined and 0 when it
\* is None, and distance is d unchanged; distances [0.1, 0.3, 0.5] give
\* scores [0.9, 0.7, 0.5].
C9_ScoreFromDistance ==
  SearchReturned =>
    LET docs == sres[1].docs
        ds == sres[1].resp.distances
    IN /\ Len(docs) = Len(ds)
       /\ \A i \in DOMAIN docs :
            /\ docs[i].distance = ds[i]
            /\ ds[i] # None => docs[i].score + Val(ds[i]) = DistUnit
            /\ ds[i] = None => docs[i].score = 0
       /\ ds = <<Some(1), Some(3), Some(5)>> =>
            [i \in 1..3 |-> docs[i].score]
              = <<DistUnit - 1, DistUnit - 3, DistUnit - 5>>

C9_Witness ==
  /\ SearchReturned
  /\ sres[1].resp.distances = <<Some(1), Some(3), Some(5)>>
  /\ sres[1].docs[3].distance = Some(5)

\* C10: the passages returned by search are ordered by descending score, for
\* every response of the collection, also one with a None distance.
C10_DescendingScore ==
  SearchReturned =>
    \A i, j \in DOMAIN sres[1].docs :
      i < j => sres[1].docs[i].score >= sres[1].docs[j].score

\* C11: every passage returned by search has a similarity score in the
\* closed interval [0, 1], for every distance the collection can report.
C11_ScoreInUnitInterval ==
  SearchReturned =>
    \A i \in DOMAIN sres[1].docs :
      0 <= sres[1].docs[i].score /\ sres[1].docs[i].score <= DistUnit

\* C12: search asks the collection for exactly k results whenever the caller
\* supplies k, and for the configured top-K only when k is absent.
C12_AsksForExactlyK ==
  (pc = "returned" /\ sres # <<>> /\ "coll_query" \in Called) =>
    sres[1].n_results = IF op.k = None THEN TopK ELSE Val(op.k)

\* get_collection_info ran and its result is in ires
InfoReturned == pc = "returned" /\ op.name = "get_collection_status" /\ ires # <<>>

\* C13: on a collection whose count() is 0, get_collection_info returns
\* status "connected", count 0 and no sample data, and computes no embedding
\* and sends no collection query in that call.
C13_EmptyCollectionNotSampled ==
  (InfoReturned /\ "count" \in DOMAIN ires[1] /\ ires[1].count = 0) =>
    /\ ires[1] = [name |-> CollectionName, count |-> 0,
                  status |-> "connected", sample_data |-> None]
    /\ calls = <<"get_collection_info", "count">>
    /\ Called \cap {"emb_ctor", "encode", "coll_query"} = {}

C13_Witness ==
  InfoReturned /\ "count" \in DOMAIN ires[1] /\ ires[1].count = 0

\* C16: get_collection_info never raises to its caller. When count() fails
\* the result is the error record (message, status "error", collection
\* name); when count() gave a positive count and the sample retrieval failed
\* at the embedding or at the collection query, the result is still
\* "connected" with that count and no sample data.
C16_InfoNeverRaises ==
  InfoReturned =>
    /\ DOMAIN ires[1] \in {{"error", "status", "name"},
                           {"name", "count", "status", "sample_data"}}
    /\ (Len(calls) = 3 /\ calls[3] = "raise") =>
         ires[1] = [error |-> ExcMsg("count"), status |-> "error",
                    name |-> CollectionName]
    /\ (Len(calls) > 3 /\ "raise" \in Called) =>
         /\ DOMAIN ires[1] = {"name", "count", "status", "sample_data"}
         /\ ires[1].name = CollectionName
         /\ ires[1].status = "connected"
         /\ ires[1].count > 0
         /\ ires[1].sample_data = None
    /\ "type" \in DOMAIN ret

C16_Witness ==
  /\ InfoReturned
  /\ calls[Len(calls)] = "raise"
  /\ Len(calls) > 3
  /\ ires[1].status = "connected"

RECURSIVE SplitOn(_, _)
\* text.split(sep), for a separator that is one fragment of the text
SplitOn(text, sep) ==
  IF \A i \in DOMAIN text : text[i] # sep THEN <<text>>
  ELSE LET i == CHOOSE j \in DOMAIN text :
                  text[j] = sep /\ \A h \in 1..(j - 1) : text[h] # sep
       IN <<SubSeq(text, 1, i - 1)>>
            \o SplitOn(SubSeq(text, i + 1, Len(text)), sep)

EndsWith(text, tail) ==
  /\ Len(text) >= Len(tail)
  /\ SubSeq(text, Len(text) - Len(tail) + 1, Len(text)) = tail

SourcesBuilt ==
  pc = "returned" /\ op.name = "query" /\ "resp" \in DOMAIN op
    /\ "sources" \in DOMAIN ret /\ "error" \notin DOMAIN ret

\* C14: in the per-source records built by query, a passage content longer
\* than 200 characters gets a preview of exactly 203 characters, the first
\* 200 of the content followed by "..."; a content of at most 200 characters
\* is its own preview.
C14_TruncationLaw ==
  SourcesBuilt =>
    /\ Len(ret.sources) = Len(op.resp.documents)
    /\ \A i \in DOMAIN ret.sources :
         LET content == op.resp.documents[i]
             preview == ret.sources[i].content_preview
         IN /\ Len(content) > 200 =>
                 /\ Len(preview) = 203
                 /\ SubSeq(preview, 1, 200) = SubSeq(content, 1, 200)
                 /\ SubSeq(preview, 201, 203) = <<".", ".", ".">>
            /\ Len(content) <= 200 => preview = content

C14_Witness ==
  /\ SourcesBuilt
  /\ Len(op.resp.documents[1]) > 200
  /\ Len(ret.sources[1].content_preview) = 203

ContextFormatted == pc = "returned" /\ op.name = "format_context"

\* the block without its "Passage i" numbering
Unnumbered(block) == SubSeq(block, 3, Len(block))

\* what block i says about the passage it is built from
BuiltFrom(block, doc) ==
  /\ EndsWith(block, <<" [Relevance: ">> \o Fmt3(doc.score) \o <<"]:\n">>
                       \o doc.content)
  /\ HasKey(doc.metadata, "story_title") =>
       Contains(block, <<" (from '", Lookup(doc.metadata, "story_title"), "')">>)
  /\ (~HasKey(doc.metadata, "story_title") /\ HasKey(doc.metadata, "source")) =>
       Contains(block, <<" (from ", Lookup(doc.metadata, "source"), ")">>)

\* C15: context formatting preserves order. An empty passage list gives the
\* fixed placeholder sentence; a list of n passages gives n blocks numbered
\* 1..n, block i built from the i-th passage; formatting a reordered list
\* gives the same block contents reordered the same way, still numbered 1..n.
C15_ContextOrderPreserving ==
  ContextFormatted =>
    LET documents == op.documents
        n == Len(documents)
        blocks == SplitOn(ret.text, "\n\n")
        pblocks == SplitOn(ret.permuted, "\n\n")
    IN IF n = 0
       THEN ret.text = <<"No relevant passages found in the collection.">>
       ELSE /\ Len(blocks) = n
            /\ Len(pblocks) = n
            /\ \A i \in 1..n :
                 /\ SubSeq(blocks[i], 1, 2) = <<"Passage ", ToString(i)>>
                 /\ SubSeq(pblocks[i], 1, 2) = <<"Passage ", ToString(i)>>
                 /\ BuiltFrom(blocks[i], documents[i])
                 /\ Unnumbered(pblocks[i]) = Unnumbered(blocks[op.perm[i]])

C15_Witness ==
  /\ ContextFormatted
  /\ Len(op.documents) >= 2
  /\ op.perm[1] # 1
  /\ ret.permuted # ret.text

====
